---- MODULE Spec2Model ----
(***************************************************************************)
(* Model of four windows_exporter collectors:                               *)
(*   scheduled_task  (COM automation against the Task Scheduler),           *)
(*   netframework    (CLR exceptions and CLR JIT, MI/WMI queries),          *)
(*   vmware          (PDH performance counters, CPU and memory).            *)
(* Strings the code inspects character by character (task paths, regular   *)
(* expressions, state names) are sequences of one-character strings.        *)
(* The collectors share no state, so each behaviour drives one registered  *)
(* collector.  For scheduled_task and netframework, whose Build only        *)
(* creates descriptors, the initial state is the built collector; vmware    *)
(* starts constructed and is built by an action.                            *)
(***************************************************************************)
EXTENDS Integers, Sequences, FiniteSets, TLC

VARIABLES
    registered,      \* the collector the registry drives in this run
    config,          \* scheduled_task Config: TaskInclude / TaskExclude
    taskScheduler,   \* native Task Scheduler: folder tree and call outcomes
    nativeLog,       \* native calls made by the last lifecycle call
    scheduledTasks,  \* what the last getScheduledTasks returned
    wmi,             \* native MI data: exceptions rows, JIT rows, outcome
    pdh,             \* native PDH data: outcomes of NewCollector / Collect
    vmware,          \* the vmware Collector struct
    lifecycle,       \* the registered collector's lifecycle stage
    call,            \* the last lifecycle call: operation, samples, result
    collects         \* Collect calls made since the native data last changed

vars == <<registered, config, taskScheduler, nativeLog, scheduledTasks,
          wmi, pdh, vmware, lifecycle, call, collects>>

(***************************************************************************)
(* Bounds of the model.                                                    *)
(***************************************************************************)
\* raw task State values range over 0..MaxState (4 is TASK_STATE_RUNNING)
MaxState == 5
\* NumberOfMissedRuns values range over 0..MaxMissedRuns
MaxMissedRuns == 2
\* a query or a perf-data collection returns at most MaxRows rows
MaxRows == 2
\* consecutive Collect calls on unchanged native data are counted up to
\* MaxCollects
MaxCollects == 2

(***************************************************************************)
(* Errors.  nil is NoError; fmt.Errorf("...: %w", e) is Wrap; errors.Join   *)
(* is Join.                                                                *)
(***************************************************************************)
NoError == [kind |-> "nil"]

NativeError(what) == [kind |-> "native", what |-> what]

Wrap(msg, e) == [kind |-> "wrap", msg |-> msg, err |-> e]

Join(errs) == IF errs = <<>> THEN NoError ELSE [kind |-> "join", errs |-> errs]

(***************************************************************************)
(* Samples: what prometheus.MustNewConstMetric builds and `ch <-` sends.    *)
(* Float values are exact fractions num/den of two-limb magnitudes.        *)
(***************************************************************************)
\* a 32-bit (or wider) magnitude as two limbs: hi * 65536 + lo
W(n) == [hi |-> n \div 65536, lo |-> n % 65536]

Float(n) == [num |-> W(n), den |-> W(1)]

Sample(desc, kind, value, labels) ==
    [desc |-> desc, kind |-> kind, value |-> value, labels |-> labels]

(***************************************************************************)
(* Text helpers.                                                           *)
(***************************************************************************)
UpperToLower ==
    [c \in {"U", "D", "Q", "R"} |->
        CASE c = "U" -> "u" [] c = "D" -> "d" [] c = "Q" -> "q" [] c = "R" -> "r"]

\* strings.ToLower
ToLower(s) ==
    [i \in 1..Len(s) |-> IF s[i] \in DOMAIN UpperToLower THEN UpperToLower[s[i]] ELSE s[i]]

\* strings.ReplaceAll(s, old, new) for one-character old and new
ReplaceAll(s, old, new) ==
    [i \in 1..Len(s) |-> IF s[i] = old THEN new ELSE s[i]]

(***************************************************************************)
(* Regular expressions.  A pattern is the flag's text; Compile anchors it  *)
(* as ^(?:pattern)$, so a match is a match of the whole string by one of   *)
(* the top-level alternatives.  Supported syntax: literal characters, ".", *)
(* the postfix operators "*" and "+", and top-level "|".                   *)
(***************************************************************************)
\* one atom against one character ("." is any character)
AtomMatches(atom, c) == atom = "." \/ atom = c

RECURSIVE MatchAtoms(_, _)
\* whole-string match of a "|"-free pattern p against s
MatchAtoms(p, s) ==
    IF p = <<>> THEN s = <<>>
    ELSE LET atom == Head(p)
             quant == IF Len(p) >= 2 /\ p[2] \in {"*", "+"} THEN p[2] ELSE ""
             rest == IF quant = "" THEN Tail(p) ELSE Tail(Tail(p))
         IN  CASE quant = "" ->
                    /\ s # <<>>
                    /\ AtomMatches(atom, Head(s))
                    /\ MatchAtoms(rest, Tail(s))
               [] quant = "*" ->
                    \/ MatchAtoms(rest, s)
                    \/ /\ s # <<>>
                       /\ AtomMatches(atom, Head(s))
                       /\ MatchAtoms(p, Tail(s))
               [] quant = "+" ->
                    /\ s # <<>>
                    /\ AtomMatches(atom, Head(s))
                    /\ MatchAtoms(<<atom, "*">> \o rest, Tail(s))

RECURSIVE Alternatives(_)
\* the top-level alternatives of a pattern, split at "|"
Alternatives(p) ==
    IF \A i \in 1..Len(p) : p[i] # "|" THEN <<p>>
    ELSE LET k == CHOOSE i \in 1..Len(p) :
                      p[i] = "|" /\ \A j \in 1..(i - 1) : p[j] # "|"
         IN  <<SubSeq(p, 1, k - 1)>> \o Alternatives(SubSeq(p, k + 1, Len(p)))

\* regexp.Compile(fmt.Sprintf("^(?:%s)$", pattern))
Compile(pattern) == [alts |-> Alternatives(pattern)]

\* (*regexp.Regexp).MatchString
MatchString(re, s) == \E i \in 1..Len(re.alts) : MatchAtoms(re.alts[i], s)

(***************************************************************************)
(* scheduled_task: constants and types.                                    *)
(***************************************************************************)
TASK_STATE_UNKNOWN == 0
TASK_STATE_DISABLED == 1
TASK_STATE_QUEUED == 2
TASK_STATE_READY == 3
TASK_STATE_RUNNING == 4

SCHED_S_SUCCESS == 0
SCHED_S_TASK_HAS_NOT_RUN == 267011      \* 0x00041303

S_OK == 0
S_FALSE == 1

\* HRESULTs CoInitializeEx returns; -2147417850 is RPC_E_CHANGED_MODE
\* (0x80010106 as a 32-bit HRESULT)
CoInitResults == {S_OK, S_FALSE, -2147417850}

\* LastTaskResult codes: besides the two the code names, exit code 1 and
\* SCHED_S_TASK_RUNNING (0x00041301)
LastTaskResults == <<SCHED_S_SUCCESS, SCHED_S_TASK_HAS_NOT_RUN, 1, 267009>>

\* Faulty variant: a value outside the five states is reported as "Unknown"
StringDefaultUnknown(t) ==
    CASE t = TASK_STATE_DISABLED -> <<"D", "i", "s", "a", "b", "l", "e", "d">>
      [] t = TASK_STATE_QUEUED -> <<"Q", "u", "e", "u", "e", "d">>
      [] t = TASK_STATE_READY -> <<"R", "e", "a", "d", "y">>
      [] t = TASK_STATE_RUNNING -> <<"R", "u", "n", "n", "i", "n", "g">>
      [] OTHER -> <<"U", "n", "k", "n", "o", "w", "n">>

\* TaskState.String
String(t) ==
    CASE t = TASK_STATE_UNKNOWN -> <<"U", "n", "k", "n", "o", "w", "n">>
      [] t = TASK_STATE_DISABLED -> <<"D", "i", "s", "a", "b", "l", "e", "d">>
      [] t = TASK_STATE_QUEUED -> <<"Q", "u", "e", "u", "e", "d">>
      [] t = TASK_STATE_READY -> <<"R", "e", "a", "d", "y">>
      [] t = TASK_STATE_RUNNING -> <<"R", "u", "n", "n", "i", "n", "g">>
      [] OTHER -> <<>>

TASK_STATES ==
    << <<"d", "i", "s", "a", "b", "l", "e", "d">>,
       <<"q", "u", "e", "u", "e", "d">>,
       <<"r", "e", "a", "d", "y">>,
       <<"r", "u", "n", "n", "i", "n", "g">>,
       <<"u", "n", "k", "n", "o", "w", "n">> >>

(***************************************************************************)
(* The native Task Scheduler.  A folder is [path, tasks, subs]; a native   *)
(* task is the IRegisteredTask properties parseTask reads.  COM handles    *)
(* are named after the object they refer to.                               *)
(***************************************************************************)
None == <<>>

RootPath == <<"\\">>

SchedulerHandle == <<"scheduler">>
ServiceHandle == <<"service">>
FolderHandle(path) == <<"folder">> \o path
TasksHandle(path) == <<"tasks">> \o path
SubFoldersHandle(path) == <<"folders">> \o path
TaskHandle(path) == <<"task">> \o path

\* one native call: the method, the handle it was made on, the handle it returned
Ev(op, on, got) == [op |-> op, on |-> on, got |-> got]

RECURSIVE Reverse(_)
Reverse(s) == IF s = <<>> THEN <<>> ELSE Reverse(Tail(s)) \o <<Head(s)>>

\* Faulty variant: deferred calls run in the order they were deferred
RunDeferredInOrder(log, deferred) == log \o deferred

\* a function returns: its deferred calls run last-in first-out
RunDeferred(log, deferred) == log \o Reverse(deferred)

\* the native call `at` on the object at `path` is the one that fails
Fails(ts, at, path) == ts.fail = [at |-> at, path |-> path]

(***************************************************************************)
(* scheduled_task: the COM session.                                        *)
(***************************************************************************)
\* parseTask: reads the six properties of one task.  The deferred Clear()
\* calls assign to a local err after the return value is set, so their
\* outcome never reaches the caller.
parseTask(ts, task) ==
    IF Fails(ts, "GetProperty", task.Path)
    THEN [task |-> [Name |-> <<>>, Path |-> <<>>, Enabled |-> FALSE, State |-> 0,
                    MissedRunsCount |-> Float(0), LastTaskResult |-> 0],
          err |-> NativeError("GetProperty")]
    ELSE [task |-> [Name |-> task.Name,
                    Path |-> ReplaceAll(task.Path, "\\", "/"),
                    Enabled |-> task.Enabled,
                    State |-> task.State,
                    MissedRunsCount |-> Float(task.NumberOfMissedRuns),
                    LastTaskResult |-> task.LastTaskResult],
          err |-> NoError]

RECURSIVE ForEachTask(_, _, _, _)
\* oleutil.ForEach over a task collection with the callback of fetchTasksInFolder,
\* from item i on; stops at the first error the callback returns
ForEachTask(ts, items, i, st) ==
    IF i > Len(items) THEN st
    ELSE LET h == TaskHandle(items[i].Path)
             got == Ev("Item", None, h)
             parsed == parseTask(ts, items[i])
             log1 == st.log \o <<got, Ev("parseTask", h, None)>>
             deferred == <<Ev("Release", h, None)>>
         IN  IF parsed.err # NoError
             THEN [tasks |-> st.tasks, err |-> parsed.err,
                   log |-> RunDeferred(log1, deferred)]
             ELSE ForEachTask(ts, items, i + 1,
                      [tasks |-> Append(st.tasks, parsed.task), err |-> NoError,
                       log |-> RunDeferred(log1, deferred)])

fetchTasksInFolder(ts, folder, st) ==
    LET h == FolderHandle(folder.path)
    IN  IF Fails(ts, "GetTasks", folder.path)
        THEN [tasks |-> st.tasks, err |-> NativeError("GetTasks"),
              log |-> Append(st.log, Ev("GetTasks", h, None))]
        ELSE LET tasks == TasksHandle(folder.path)
                 deferred == <<Ev("Release", tasks, None)>>
                 r == ForEachTask(ts, folder.tasks, 1,
                          [tasks |-> st.tasks, err |-> NoError,
                           log |-> Append(st.log, Ev("GetTasks", h, tasks))])
             IN  [r EXCEPT !.log = RunDeferred(r.log, deferred)]

RECURSIVE fetchTasksRecursively(_, _, _)
RECURSIVE ForEachFolder(_, _, _, _)
RECURSIVE ForEachFolderNoRecurse(_, _, _, _)
\* Faulty variant: the callback lists the tasks of the sub-folder and does not descend
ForEachFolderNoRecurse(ts, items, i, st) ==
    IF i > Len(items) THEN st
    ELSE LET subFolder == FolderHandle(items[i].path)
             r == fetchTasksInFolder(ts, items[i],
                      [st EXCEPT !.log = Append(st.log, Ev("Item", None, subFolder))])
             done == [r EXCEPT !.log = Append(r.log, Ev("Release", subFolder, None))]
         IN  IF done.err # NoError THEN done
             ELSE ForEachFolderNoRecurse(ts, items, i + 1, done)

\* oleutil.ForEach over a folder collection with the callback of
\* fetchTasksRecursively, from item i on
ForEachFolder(ts, items, i, st) ==
    IF i > Len(items) THEN st
    ELSE LET subFolder == FolderHandle(items[i].path)
             deferred == <<Ev("Release", subFolder, None)>>
             r == fetchTasksRecursively(ts, items[i],
                      [st EXCEPT !.log = Append(st.log, Ev("Item", None, subFolder))])
             done == [r EXCEPT !.log = RunDeferred(r.log, deferred)]
         IN  IF done.err # NoError THEN done
             ELSE ForEachFolder(ts, items, i + 1, done)

fetchTasksRecursively(ts, folder, st) ==
    LET h == FolderHandle(folder.path)
        own == fetchTasksInFolder(ts, folder, st)
    IN  IF own.err # NoError THEN own
        ELSE IF Fails(ts, "GetFolders", folder.path)
        THEN [own EXCEPT !.err = NativeError("GetFolders"),
                         !.log = Append(own.log, Ev("GetFolders", h, None))]
        ELSE LET subFolders == SubFoldersHandle(folder.path)
                 deferred == <<Ev("Release", subFolders, None)>>
                 r == ForEachFolder(ts, folder.subs, 1,
                          [own EXCEPT !.log = Append(own.log, Ev("GetFolders", h, subFolders))])
             IN  [r EXCEPT !.log = RunDeferred(r.log, deferred)]

\* getScheduledTasks: [tasks, err, log]
getScheduledTasks(ts) ==
    LET lock == <<Ev("LockOSThread", None, None)>>
        d0 == <<Ev("UnlockOSThread", None, None)>>
        hr == ts.coInit
        l1 == Append(lock, Ev("CoInitializeEx", None, None))
        d1 == Append(d0, Ev("CoUninitialize", None, None))
        l2 == Append(l1, Ev("ClassIDFrom", None, None))
        d2 == Append(d1, Ev("Release", SchedulerHandle, None))
        l3 == Append(l2, Ev("CreateInstance", None, SchedulerHandle))
        l4 == l3 \o <<Ev("QueryInterface", SchedulerHandle, ServiceHandle),
                      Ev("Connect", ServiceHandle, None)>>
        d3 == Append(d2, Ev("Release", ServiceHandle, None))
        d4 == Append(d3, Ev("Release", FolderHandle(RootPath), None))
        l5 == Append(l4, Ev("GetFolder", ServiceHandle, FolderHandle(RootPath)))
        walk == fetchTasksRecursively(ts, ts.root, [tasks |-> <<>>, err |-> NoError, log |-> l5])
    IN  IF hr # S_OK /\ hr # S_FALSE
        THEN [tasks |-> <<>>, err |-> [kind |-> "ole", code |-> hr],
              log |-> RunDeferred(l1, d0)]
        ELSE IF Fails(ts, "ClassIDFrom", None)
        THEN [tasks |-> <<>>, err |-> NativeError("ClassIDFrom"),
              log |-> RunDeferred(l2, d1)]
        ELSE IF Fails(ts, "CreateInstance", None)
        THEN [tasks |-> <<>>, err |-> NativeError("CreateInstance"),
              log |-> RunDeferred(Append(l2, Ev("CreateInstance", None, None)), d1)]
        ELSE IF Fails(ts, "CreateInstanceNil", None)
        THEN [tasks |-> <<>>, err |-> NoError,
              log |-> RunDeferred(Append(l2, Ev("CreateInstance", None, None)), d1)]
        ELSE IF Fails(ts, "Connect", None)
        THEN [tasks |-> <<>>, err |-> NativeError("Connect"),
              log |-> RunDeferred(l4, d2)]
        ELSE IF Fails(ts, "GetFolder", None)
        THEN [tasks |-> <<>>, err |-> NativeError("GetFolder"),
              log |-> RunDeferred(Append(l4, Ev("GetFolder", ServiceHandle, None)), d3)]
        ELSE [walk EXCEPT !.log = RunDeferred(walk.log, d4)]

(***************************************************************************)
(* scheduled_task: Build and collect.                                      *)
(***************************************************************************)
\* Collector.Build: the three descriptors
lastResult == [name |-> "windows_scheduled_task_last_result", labels |-> <<"task">>]
missedRuns == [name |-> "windows_scheduled_task_missed_runs", labels |-> <<"task">>]
state == [name |-> "windows_scheduled_task_state", labels |-> <<"task", "state">>]

\* Faulty variant: the include pattern is not consulted
SkippedExcludeOnly(cfg, task) == MatchString(cfg.TaskExclude, task.Path)

\* the filter of collect: TRUE when the task is skipped
Skipped(cfg, task) ==
    \/ MatchString(cfg.TaskExclude, task.Path)
    \/ ~MatchString(cfg.TaskInclude, task.Path)

\* Faulty variant: the state name is compared without lower-casing it
stateValueNoLower(task, st) == IF String(task.State) = st THEN Float(1) ELSE Float(0)

\* the value of one state sample
stateValue(task, st) == IF ToLower(String(task.State)) = st THEN Float(1) ELSE Float(0)

\* the inner loop of collect over TASK_STATES
StateSamples(task) ==
    [i \in 1..Len(TASK_STATES) |->
        Sample(state, "Gauge", stateValue(task, TASK_STATES[i]), <<task.Path, TASK_STATES[i]>>)]

\* Faulty variant: the has-not-run sentinel is not skipped
ResultSamplesNoSentinel(task) ==
    << Sample(lastResult, "Gauge",
              IF task.LastTaskResult = SCHED_S_SUCCESS THEN Float(1) ELSE Float(0),
              <<task.Path>>),
       Sample(missedRuns, "Gauge", task.MissedRunsCount, <<task.Path>>) >>

\* the rest of the loop body of collect
ResultSamples(task) ==
    IF task.LastTaskResult = SCHED_S_TASK_HAS_NOT_RUN THEN <<>>
    ELSE << Sample(lastResult, "Gauge",
                   IF task.LastTaskResult = SCHED_S_SUCCESS THEN Float(1) ELSE Float(0),
                   <<task.Path>>),
            Sample(missedRuns, "Gauge", task.MissedRunsCount, <<task.Path>>) >>

RECURSIVE collectLoop(_, _, _, _)
\* the loop of collect over scheduledTasks, from index i on
collectLoop(cfg, tasks, i, ch) ==
    IF i > Len(tasks) THEN ch
    ELSE IF Skipped(cfg, tasks[i]) THEN collectLoop(cfg, tasks, i + 1, ch)
    ELSE collectLoop(cfg, tasks, i + 1,
             ch \o StateSamples(tasks[i]) \o ResultSamples(tasks[i]))

\* Faulty variant: the error of getScheduledTasks is returned after the loop has run
collectPartial(cfg, ts) ==
    LET got == getScheduledTasks(ts)
    IN  [ch |-> collectLoop(cfg, got.tasks, 1, <<>>),
         err |-> IF got.err # NoError THEN Wrap("get scheduled tasks", got.err) ELSE NoError,
         got |-> got]

\* Collector.collect: [ch, err] and what getScheduledTasks did
collect(cfg, ts) ==
    LET got == getScheduledTasks(ts)
    IN  IF got.err # NoError
        THEN [ch |-> <<>>, err |-> Wrap("get scheduled tasks", got.err), got |-> got]
        ELSE [ch |-> collectLoop(cfg, got.tasks, 1, <<>>), err |-> NoError, got |-> got]

(***************************************************************************)
(* The native Task Scheduler states the model draws from.                  *)
(***************************************************************************)
\* the properties of the i-th task profile
Profile(i) ==
    [State |-> i % (MaxState + 1),
     LastTaskResult |-> LastTaskResults[((i \div (MaxState + 1)) % Len(LastTaskResults)) + 1],
     NumberOfMissedRuns |-> i % (MaxMissedRuns + 1),
     Enabled |-> i % 2 = 0]

Seeds == 0..((MaxState + 1) * Len(LastTaskResults) - 1)

ChildPath(parent, name) ==
    IF parent = RootPath THEN parent \o <<name>> ELSE parent \o <<"\\", name>>

NativeTask(folderPath, name, i) ==
    [Name |-> <<name>>, Path |-> ChildPath(folderPath, name),
     State |-> Profile(i).State, LastTaskResult |-> Profile(i).LastTaskResult,
     NumberOfMissedRuns |-> Profile(i).NumberOfMissedRuns, Enabled |-> Profile(i).Enabled]

Folder(path, tasks, subs) == [path |-> path, tasks |-> tasks, subs |-> subs]

PathF == ChildPath(RootPath, "f")
PathFG == ChildPath(PathF, "g")
PathFK == ChildPath(PathF, "k")
PathFGK == ChildPath(PathFG, "k")
PathH == ChildPath(RootPath, "h")

\* the folder trees: empty, flat, siblings at two depths, a deep chain
FolderTrees(seed) ==
    { Folder(RootPath, <<>>, <<>>),
      Folder(RootPath, <<NativeTask(RootPath, "a", seed), NativeTask(RootPath, "b", seed + 1)>>, <<>>),
      Folder(RootPath, <<NativeTask(RootPath, "a", seed)>>,
             << Folder(PathF, <<NativeTask(PathF, "a", seed + 1)>>,
                       << Folder(PathFG, <<NativeTask(PathFG, "c", seed + 2)>>, <<>>),
                          Folder(PathFK, <<>>, <<>>) >>),
                Folder(PathH, <<NativeTask(PathH, "d", seed + 3)>>, <<>>) >>),
      Folder(RootPath, <<>>,
             << Folder(PathF, <<>>,
                       << Folder(PathFG, <<>>,
                                 << Folder(PathFGK, <<NativeTask(PathFGK, "a", seed)>>, <<>>) >>) >>) >>) }

RECURSIVE FoldersOf(_)
\* every folder of the tree rooted at folder
FoldersOf(folder) ==
    {folder} \cup UNION {FoldersOf(folder.subs[i]) : i \in 1..Len(folder.subs)}

\* every native task of the tree rooted at folder
TasksOf(folder) ==
    UNION {{f.tasks[i] : i \in 1..Len(f.tasks)} : f \in FoldersOf(folder)}

NoFail == [at |-> "none", path |-> None]

\* the native calls of a session on this tree, each of which may fail
FailPoints(root) ==
    {[at |-> a, path |-> None] :
        a \in {"ClassIDFrom", "CreateInstance", "CreateInstanceNil", "Connect", "GetFolder"}}
    \cup {[at |-> a, path |-> f.path] : a \in {"GetTasks", "GetFolders"}, f \in FoldersOf(root)}
    \cup {[at |-> "GetProperty", path |-> t.Path] : t \in TasksOf(root)}

TaskSchedulers ==
    {[root |-> r, coInit |-> c, fail |-> NoFail] :
        r \in UNION {FolderTrees(seed) : seed \in Seeds}, c \in CoInitResults}
    \cup UNION {{[root |-> r, coInit |-> c, fail |-> p] :
                    c \in {S_OK, S_FALSE}, p \in FailPoints(r)} : r \in FolderTrees(0)}

\* text of the include / exclude flags
Flag(include, exclude) ==
    [TaskInclude |-> Compile(include), TaskExclude |-> Compile(exclude)]

ConfigDefaults == Flag(<<".", "+">>, <<>>)

Configs ==
    { ConfigDefaults,
      Flag(<<"/", "a">>, <<>>),
      Flag(<<"/", "a", "|", "/", "f", "/", ".", "+">>, <<>>),
      Flag(<<".", "+">>, <<"/", "f", "/", ".", "*">>),
      Flag(<<"/", "f", "/", ".", "+">>, <<".", "+", "/", "c">>),
      Flag(<<".", "*">>, <<".", "+">>) }

(***************************************************************************)
(* netframework: CLR exceptions and CLR JIT.                               *)
(***************************************************************************)
\* Faulty variant: conversion through a 24-bit significand; a magnitude of
\* 2^24 or more is rounded to the nearest multiple of 256
float32(w) ==
    LET lo == ((w.lo + 128) \div 256) * 256
    IN  [num |-> IF w.hi < 256 THEN w
                 ELSE IF lo = 65536 THEN [hi |-> w.hi + 1, lo |-> 0]
                 ELSE [hi |-> w.hi, lo |-> lo],
         den |-> W(1)]

\* float64(x) of a uint32 field: the 53-bit significand holds every
\* magnitude below 2^53, so each of the 2^32 values converts exactly
float64(w) == [num |-> w, den |-> W(1)]

\* float64(a) / float64(b); a zero den is Go's +Inf or NaN
FDiv(a, b) == [num |-> a, den |-> b]

\* buildClrExceptions
numberOfExceptionsThrown ==
    [name |-> "windows_netframework_clrexceptions_exceptions_thrown_total", labels |-> <<"process">>]
numberOfFilters ==
    [name |-> "windows_netframework_clrexceptions_exceptions_filters_total", labels |-> <<"process">>]
numberOfFinally ==
    [name |-> "windows_netframework_clrexceptions_exceptions_finallys_total", labels |-> <<"process">>]
throwToCatchDepth ==
    [name |-> "windows_netframework_clrexceptions_throw_to_catch_depth_total", labels |-> <<"process">>]

\* buildClrJIT
numberOfMethodsJitted ==
    [name |-> "windows_netframework_clrjit_jit_methods_total", labels |-> <<"process">>]
timeInJit ==
    [name |-> "windows_netframework_clrjit_jit_time_percent", labels |-> <<"process">>]
standardJitFailures ==
    [name |-> "windows_netframework_clrjit_jit_standard_failures_total", labels |-> <<"process">>]
totalNumberOfILBytesJitted ==
    [name |-> "windows_netframework_clrjit_jit_il_bytes_total", labels |-> <<"process">>]

\* the k-th uint32 counter of a process at a level of activity: zero, small,
\* or at the top of the 32-bit range (k = 0 is 4294967295)
U32(level, k) ==
    CASE level = 0 -> W(0)
      [] level = 1 -> W(10 + k)
      [] OTHER -> [hi |-> 65535, lo |-> 65535 - k]

\* Win32_PerfRawData_NETFramework_NETCLRExceptions of one process
ClrExceptionsRow(p) ==
    [Name |-> p.Name,
     NumberofExcepsThrown |-> U32(p.level, 0),
     NumberofExcepsThrownPersec |-> U32(p.level, 1),
     NumberofFiltersPersec |-> U32(p.level, 2),
     NumberofFinallysPersec |-> U32(p.level, 3),
     ThrowToCatchDepthPersec |-> U32(p.level, 4)]

\* Win32_PerfRawData_NETFramework_NETCLRJit of one process
ClrJitRow(p) ==
    [Name |-> p.Name,
     Frequency_PerfTime |-> CASE p.level = 0 -> W(0) [] p.level = 1 -> W(100) [] OTHER -> W(10),
     ILBytesJittedPersec |-> U32(p.level, 1),
     NumberofILBytesJitted |-> U32(p.level, 2),
     NumberofMethodsJitted |-> U32(p.level, 3),
     PercentTimeinJit |-> CASE p.level = 0 -> W(0) [] p.level = 1 -> W(50) [] OTHER -> U32(2, 0),
     StandardJitFailures |-> U32(p.level, 4),
     TotalNumberofILBytesJitted |-> U32(p.level, 5)]

\* miSession.Query(&dst, ...): [dst, err]; a failed query may have filled dst
Query(w, class) ==
    [dst |-> [i \in 1..Len(w.processes) |->
                IF class = "Win32_PerfRawData_NETFramework_NETCLRExceptions"
                THEN ClrExceptionsRow(w.processes[i])
                ELSE ClrJitRow(w.processes[i])],
     err |-> IF w.fail THEN NativeError("Query") ELSE NoError]

\* the four samples of one CLR exceptions row
ClrExceptionsSamples(process) ==
    << Sample(numberOfExceptionsThrown, "Counter", float64(process.NumberofExcepsThrown), <<process.Name>>),
       Sample(numberOfFilters, "Counter", float64(process.NumberofFiltersPersec), <<process.Name>>),
       Sample(numberOfFinally, "Counter", float64(process.NumberofFinallysPersec), <<process.Name>>),
       Sample(throwToCatchDepth, "Counter", float64(process.ThrowToCatchDepthPersec), <<process.Name>>) >>

RECURSIVE clrExceptionsLoopNoSkip(_, _, _)
\* Faulty variant: the sentinel row is emitted like any other
clrExceptionsLoopNoSkip(dst, i, ch) ==
    IF i > Len(dst) THEN ch
    ELSE clrExceptionsLoopNoSkip(dst, i + 1, ch \o ClrExceptionsSamples(dst[i]))

RECURSIVE clrExceptionsLoop(_, _, _)
\* the loop of collectClrExceptions over dst, from index i on
clrExceptionsLoop(dst, i, ch) ==
    IF i > Len(dst) THEN ch
    ELSE IF dst[i].Name = "_Global_" THEN clrExceptionsLoop(dst, i + 1, ch)
    ELSE clrExceptionsLoop(dst, i + 1, ch \o ClrExceptionsSamples(dst[i]))

collectClrExceptions(w) ==
    LET q == Query(w, "Win32_PerfRawData_NETFramework_NETCLRExceptions")
    IN  IF q.err # NoError
        THEN [ch |-> <<>>, err |-> Wrap("WMI query failed", q.err)]
        ELSE [ch |-> clrExceptionsLoop(q.dst, 1, <<>>), err |-> NoError]

\* the four samples of one CLR JIT row
ClrJitSamples(process) ==
    << Sample(numberOfMethodsJitted, "Counter", float64(process.NumberofMethodsJitted), <<process.Name>>),
       Sample(timeInJit, "Gauge", FDiv(process.PercentTimeinJit, process.Frequency_PerfTime), <<process.Name>>),
       Sample(standardJitFailures, "Gauge", float64(process.StandardJitFailures), <<process.Name>>),
       Sample(totalNumberOfILBytesJitted, "Counter", float64(process.TotalNumberofILBytesJitted), <<process.Name>>) >>

RECURSIVE clrJITLoop(_, _, _)
\* the loop of collectClrJIT over dst, from index i on
clrJITLoop(dst, i, ch) ==
    IF i > Len(dst) THEN ch
    ELSE IF dst[i].Name = "_Global_" THEN clrJITLoop(dst, i + 1, ch)
    ELSE clrJITLoop(dst, i + 1, ch \o ClrJitSamples(dst[i]))

collectClrJIT(w) ==
    LET q == Query(w, "Win32_PerfRawData_NETFramework_NETCLRJit")
    IN  IF q.err # NoError
        THEN [ch |-> <<>>, err |-> Wrap("WMI query failed", q.err)]
        ELSE [ch |-> clrJITLoop(q.dst, 1, <<>>), err |-> NoError]

\* the processes WMI reports: the aggregate row and .NET processes at
\* different levels of activity
Processes ==
    { [Name |-> "_Global_", level |-> 1],
      [Name |-> "w3wp", level |-> 0], [Name |-> "w3wp", level |-> 1],
      [Name |-> "w3wp", level |-> 2], [Name |-> "_global_", level |-> 2] }

RECURSIVE SeqsUpTo(_, _)
\* the sequences over S of length at most n
SeqsUpTo(S, n) ==
    IF n = 0 THEN {<<>>}
    ELSE LET shorter == SeqsUpTo(S, n - 1)
         IN  shorter \cup {Append(q, x) : q \in shorter, x \in S}

WmiStates == {[processes |-> ps, fail |-> f] : ps \in SeqsUpTo(Processes, MaxRows), f \in BOOLEAN}

(***************************************************************************)
(* vmware: PDH perf-data collectors, Build and Collect.                    *)
(***************************************************************************)
Desc(name) == [name |-> name, labels |-> <<>>]

\* the descriptors Collector.Build creates, by struct field
BuildDescs ==
    [cpuLimitMHz |-> Desc("windows_vmware_cpu_limit_mhz"),
     cpuReservationMHz |-> Desc("windows_vmware_cpu_reservation_mhz"),
     cpuShares |-> Desc("windows_vmware_cpu_shares"),
     cpuStolenTotal |-> Desc("windows_vmware_cpu_stolen_seconds_total"),
     cpuTimeTotal |-> Desc("windows_vmware_cpu_time_seconds_total"),
     cpuEffectiveVMSpeedMHz |-> Desc("windows_vmware_cpu_effective_vm_speed_mhz_total"),
     hostProcessorSpeedMHz |-> Desc("windows_vmware_host_processor_speed_mhz"),
     memActive |-> Desc("windows_vmware_mem_active_bytes"),
     memBallooned |-> Desc("windows_vmware_mem_ballooned_bytes"),
     memLimit |-> Desc("windows_vmware_mem_limit_bytes"),
     memMapped |-> Desc("windows_vmware_mem_mapped_bytes"),
     memOverhead |-> Desc("windows_vmware_mem_overhead_bytes"),
     memReservation |-> Desc("windows_vmware_mem_reservation_bytes"),
     memShared |-> Desc("windows_vmware_mem_shared_bytes"),
     memSharedSaved |-> Desc("windows_vmware_mem_shared_saved_bytes"),
     memShares |-> Desc("windows_vmware_mem_shares"),
     memSwapped |-> Desc("windows_vmware_mem_swapped_bytes"),
     memTargetSize |-> Desc("windows_vmware_mem_target_size_bytes"),
     memUsed |-> Desc("windows_vmware_mem_used_bytes")]

\* vmware.New: no collectors, no rows, no descriptors
NewCollector ==
    [perfDataCollectorCPU |-> "nil", perfDataCollectorMemory |-> "nil",
     perfDataObjectCPU |-> <<>>, perfDataObjectMemory |-> <<>>, descs |-> <<>>]

\* pdh.NewCollector for a counter object: the collector, or nil and an error
pdhNewCollector(object, available) ==
    IF available THEN [collector |-> "open", err |-> NoError]
    ELSE [collector |-> "nil", err |-> NativeError(<<"NewCollector", object>>)]

\* Faulty variant: Build returns at the first collector it cannot create
BuildShortCircuit(c, cpuAvailable, memAvailable) ==
    LET cpu == pdhNewCollector("VM Processor", cpuAvailable)
        mem == pdhNewCollector("VM Memory", memAvailable)
    IN  IF cpu.err # NoError
        THEN [c |-> [c EXCEPT !.perfDataCollectorCPU = cpu.collector],
              err |-> Wrap("failed to create VM Processor collector", cpu.err),
              log |-> <<Ev("NewCollector", <<"VM Processor">>, None)>>]
        ELSE [c |-> [c EXCEPT !.perfDataCollectorCPU = cpu.collector,
                              !.perfDataCollectorMemory = mem.collector,
                              !.descs = BuildDescs],
              err |-> IF mem.err # NoError
                      THEN Join(<<Wrap("failed to create VM Memory collector", mem.err)>>)
                      ELSE NoError,
              log |-> <<Ev("NewCollector", <<"VM Processor">>, None),
                        Ev("NewCollector", <<"VM Memory">>, None)>>]

\* Collector.Build: [c, err, log]
Build(c, cpuAvailable, memAvailable) ==
    LET cpu == pdhNewCollector("VM Processor", cpuAvailable)
        errs1 == IF cpu.err # NoError
                 THEN <<Wrap("failed to create VM Processor collector", cpu.err)>>
                 ELSE <<>>
        mem == pdhNewCollector("VM Memory", memAvailable)
        errs2 == IF mem.err # NoError
                 THEN Append(errs1, Wrap("failed to create VM Memory collector", mem.err))
                 ELSE errs1
    IN  [c |-> [c EXCEPT !.perfDataCollectorCPU = cpu.collector,
                         !.perfDataCollectorMemory = mem.collector,
                         !.descs = BuildDescs],
         err |-> Join(errs2),
         log |-> <<Ev("NewCollector", <<"VM Processor">>, None),
                   Ev("NewCollector", <<"VM Memory">>, None)>>]

\* utils.MBToBytes: x * 1024 * 1024 (1048576 = 16 * 65536)
MBToBytes(x) == [num |-> [hi |-> x * 16, lo |-> 0], den |-> W(1)]

\* utils.MilliSecToSec: x / 1000
MilliSecToSec(x) == [num |-> W(x), den |-> W(1000)]

\* the k-th row of "VM Processor" counter values
CpuRow(k) ==
    [CPULimitMHz |-> 100 * k + 1, CPUReservationMHz |-> 100 * k + 2,
     CPUShares |-> 100 * k + 3, CPUStolenMs |-> 100 * k + 4,
     CPUTimePercents |-> 100 * k + 5, CPUEffectiveVMSpeedMHz |-> 100 * k + 6,
     CPUHostProcessorSpeedMHz |-> 100 * k + 7]

\* the k-th row of "VM Memory" counter values
MemRow(k) ==
    [MemActiveMB |-> 100 * k + 11, MemBalloonedMB |-> 100 * k + 12,
     MemLimitMB |-> 100 * k + 13, MemMappedMB |-> 100 * k + 14,
     MemOverheadMB |-> 100 * k + 15, MemReservationMB |-> 100 * k + 16,
     MemSharedMB |-> 100 * k + 17, MemSharedSavedMB |-> 100 * k + 18,
     MemShares |-> 100 * k + 19, MemSwappedMB |-> 100 * k + 20,
     MemTargetSizeMB |-> 100 * k + 21, MemUsedMB |-> 100 * k + 22]

\* (*pdh.Collector).Collect(&dst): on success dst holds the rows collected,
\* on failure dst is left as it was
pdhCollect(object, outcome, seed, dst) ==
    IF outcome.err THEN [dst |-> dst, err |-> NativeError("Collect")]
    ELSE [dst |-> [i \in 1..outcome.n |->
                     IF object = "VM Processor" THEN CpuRow(seed + i - 1)
                     ELSE MemRow(seed + i - 1)],
          err |-> NoError]

\* Faulty variant: the samples are read from the rows retained from the
\* call before, when there are any
collectCpuStale(c, p, ch) ==
    LET r == pdhCollect("VM Processor", p.cpu, p.seed, c.perfDataObjectCPU)
        c1 == [c EXCEPT !.perfDataObjectCPU = r.dst]
        row == IF c.perfDataObjectCPU # <<>> THEN c.perfDataObjectCPU[1] ELSE r.dst[1]
    IN  IF r.err # NoError
        THEN [c |-> c1, ch |-> ch, panicked |-> FALSE,
              err |-> Wrap("failed to collect VM CPU metrics", r.err)]
        ELSE IF Len(r.dst) = 0
        THEN [c |-> c1, ch |-> ch, panicked |-> TRUE, err |-> NoError]
        ELSE [c |-> c1, panicked |-> FALSE, err |-> NoError,
              ch |-> ch \o
                << Sample(c.descs.cpuLimitMHz, "Gauge", Float(row.CPULimitMHz), <<>>),
                   Sample(c.descs.cpuReservationMHz, "Gauge", Float(row.CPUReservationMHz), <<>>),
                   Sample(c.descs.cpuShares, "Gauge", Float(row.CPUShares), <<>>),
                   Sample(c.descs.cpuStolenTotal, "Counter", MilliSecToSec(row.CPUStolenMs), <<>>),
                   Sample(c.descs.cpuTimeTotal, "Counter", MilliSecToSec(row.CPUTimePercents), <<>>),
                   Sample(c.descs.cpuEffectiveVMSpeedMHz, "Gauge", Float(row.CPUEffectiveVMSpeedMHz), <<>>),
                   Sample(c.descs.hostProcessorSpeedMHz, "Gauge", Float(row.CPUHostProcessorSpeedMHz), <<>>) >>]

\* collectCpu: [c, ch, err, panicked, log]; indexing row 0 of no rows panics
collectCpu(c, p, ch) ==
    LET r == pdhCollect("VM Processor", p.cpu, p.seed, c.perfDataObjectCPU)
        c1 == [c EXCEPT !.perfDataObjectCPU = r.dst]
        row == r.dst[1]
    IN  IF r.err # NoError
        THEN [c |-> c1, ch |-> ch, panicked |-> FALSE,
              err |-> Wrap("failed to collect VM CPU metrics", r.err)]
        ELSE IF Len(r.dst) = 0
        THEN [c |-> c1, ch |-> ch, panicked |-> TRUE, err |-> NoError]
        ELSE [c |-> c1, panicked |-> FALSE, err |-> NoError,
              ch |-> ch \o
                << Sample(c.descs.cpuLimitMHz, "Gauge", Float(row.CPULimitMHz), <<>>),
                   Sample(c.descs.cpuReservationMHz, "Gauge", Float(row.CPUReservationMHz), <<>>),
                   Sample(c.descs.cpuShares, "Gauge", Float(row.CPUShares), <<>>),
                   Sample(c.descs.cpuStolenTotal, "Counter", MilliSecToSec(row.CPUStolenMs), <<>>),
                   Sample(c.descs.cpuTimeTotal, "Counter", MilliSecToSec(row.CPUTimePercents), <<>>),
                   Sample(c.descs.cpuEffectiveVMSpeedMHz, "Gauge", Float(row.CPUEffectiveVMSpeedMHz), <<>>),
                   Sample(c.descs.hostProcessorSpeedMHz, "Gauge", Float(row.CPUHostProcessorSpeedMHz), <<>>) >>]

\* collectMem: [c, ch, err, panicked]
collectMem(c, p, ch) ==
    LET r == pdhCollect("VM Memory", p.mem, p.seed, c.perfDataObjectMemory)
        c1 == [c EXCEPT !.perfDataObjectMemory = r.dst]
        row == r.dst[1]
    IN  IF r.err # NoError
        THEN [c |-> c1, ch |-> ch, panicked |-> FALSE,
              err |-> Wrap("failed to collect VM Memory metrics", r.err)]
        ELSE IF Len(r.dst) = 0
        THEN [c |-> c1, ch |-> ch, panicked |-> TRUE, err |-> NoError]
        ELSE [c |-> c1, panicked |-> FALSE, err |-> NoError,
              ch |-> ch \o
                << Sample(c.descs.memActive, "Gauge", MBToBytes(row.MemActiveMB), <<>>),
                   Sample(c.descs.memBallooned, "Gauge", MBToBytes(row.MemBalloonedMB), <<>>),
                   Sample(c.descs.memLimit, "Gauge", MBToBytes(row.MemLimitMB), <<>>),
                   Sample(c.descs.memMapped, "Gauge", MBToBytes(row.MemMappedMB), <<>>),
                   Sample(c.descs.memOverhead, "Gauge", MBToBytes(row.MemOverheadMB), <<>>),
                   Sample(c.descs.memReservation, "Gauge", MBToBytes(row.MemReservationMB), <<>>),
                   Sample(c.descs.memShared, "Gauge", MBToBytes(row.MemSharedMB), <<>>),
                   Sample(c.descs.memSharedSaved, "Gauge", MBToBytes(row.MemSharedSavedMB), <<>>),
                   Sample(c.descs.memShares, "Gauge", Float(row.MemShares), <<>>),
                   Sample(c.descs.memSwapped, "Gauge", MBToBytes(row.MemSwappedMB), <<>>),
                   Sample(c.descs.memTargetSize, "Gauge", MBToBytes(row.MemTargetSizeMB), <<>>),
                   Sample(c.descs.memUsed, "Gauge", MBToBytes(row.MemUsedMB), <<>>) >>]

\* vmware Collector.Collect: [c, ch, err, panicked, log]; a panic in
\* collectCpu unwinds Collect before collectMem is called
Collect(c, p) ==
    LET cpu == collectCpu(c, p, <<>>)
        errs1 == IF cpu.err # NoError
                 THEN <<Wrap("failed collecting vmware cpu metrics", cpu.err)>>
                 ELSE <<>>
        mem == collectMem(cpu.c, p, cpu.ch)
        errs2 == IF mem.err # NoError
                 THEN Append(errs1, Wrap("failed collecting vmware memory metrics", mem.err))
                 ELSE errs1
    IN  IF cpu.panicked
        THEN [c |-> cpu.c, ch |-> cpu.ch, err |-> NoError, panicked |-> TRUE,
              log |-> <<Ev("Collect", <<"VM Processor">>, None)>>]
        ELSE [c |-> mem.c, ch |-> mem.ch, panicked |-> mem.panicked,
              err |-> IF mem.panicked THEN NoError ELSE Join(errs2),
              log |-> <<Ev("Collect", <<"VM Processor">>, None),
                        Ev("Collect", <<"VM Memory">>, None)>>]

\* what one perf-data collection does: fail, or return n rows
PdhOutcomes ==
    {[err |-> TRUE, n |-> 0]} \cup {[err |-> FALSE, n |-> k] : k \in 0..MaxRows}

PdhStates == {[cpu |-> a, mem |-> b, seed |-> k] : a \in PdhOutcomes, b \in PdhOutcomes, k \in 1..2}

(***************************************************************************)
(* State machine.                                                          *)
(***************************************************************************)
Collectors == {"scheduled_task", "netframework", "vmware"}

Idle == [op |-> "none", ch |-> <<>>, err |-> NoError, panicked |-> FALSE]

\* one more Collect on the same native data
Again == IF collects < MaxCollects THEN collects + 1 ELSE collects

Init ==
    /\ registered \in Collectors
    /\ config \in (IF registered = "scheduled_task" THEN Configs ELSE {ConfigDefaults})
    /\ taskScheduler = [root |-> Folder(RootPath, <<>>, <<>>), coInit |-> S_OK, fail |-> NoFail]
    /\ nativeLog = <<>>
    /\ scheduledTasks = <<>>
    /\ wmi = [processes |-> <<>>, fail |-> FALSE]
    /\ pdh = [cpu |-> [err |-> FALSE, n |-> 1], mem |-> [err |-> FALSE, n |-> 1], seed |-> 1]
    /\ vmware = NewCollector
    /\ lifecycle = IF registered = "vmware" THEN "Constructed" ELSE "Built"
    /\ call = Idle
    /\ collects = 0

\* Between scrapes tasks and folders change and native calls start or stop
\* failing; the samples of the previous scrape have been consumed by then.
TaskSchedulerChange ==
    /\ registered = "scheduled_task"
    /\ taskScheduler' \in TaskSchedulers
    /\ nativeLog' = <<>>
    /\ scheduledTasks' = <<>>
    /\ call' = Idle
    /\ collects' = 0
    /\ UNCHANGED <<registered, config, wmi, pdh, vmware, lifecycle>>

\* scheduled_task Collector.Collect
ScheduledTaskCollect ==
    /\ registered = "scheduled_task"
    /\ LET r == collect(config, taskScheduler)
       IN  /\ call' = [op |-> "scheduled_task", ch |-> r.ch, err |-> r.err, panicked |-> FALSE]
           /\ nativeLog' = r.got.log
           /\ scheduledTasks' = r.got.tasks
    /\ collects' = Again
    /\ UNCHANGED <<registered, config, taskScheduler, wmi, pdh, vmware, lifecycle>>

\* Between scrapes processes start and stop and the WMI provider starts or
\* stops failing.
WmiChange ==
    /\ registered = "netframework"
    /\ wmi' \in WmiStates
    /\ call' = Idle
    /\ collects' = 0
    /\ UNCHANGED <<registered, config, taskScheduler, nativeLog, scheduledTasks, pdh, vmware, lifecycle>>

\* netframework Collector.collectClrExceptions
NetframeworkCollectClrExceptions ==
    /\ registered = "netframework"
    /\ LET r == collectClrExceptions(wmi)
       IN  call' = [op |-> "clrexceptions", ch |-> r.ch, err |-> r.err, panicked |-> FALSE]
    /\ collects' = Again
    /\ UNCHANGED <<registered, config, taskScheduler, nativeLog, scheduledTasks, wmi, pdh, vmware, lifecycle>>

\* netframework Collector.collectClrJIT
NetframeworkCollectClrJIT ==
    /\ registered = "netframework"
    /\ LET r == collectClrJIT(wmi)
       IN  call' = [op |-> "clrjit", ch |-> r.ch, err |-> r.err, panicked |-> FALSE]
    /\ collects' = Again
    /\ UNCHANGED <<registered, config, taskScheduler, nativeLog, scheduledTasks, wmi, pdh, vmware, lifecycle>>

\* Between scrapes the counter values change and collections start or stop
\* failing.
PdhChange ==
    /\ registered = "vmware"
    /\ pdh' \in PdhStates
    /\ nativeLog' = <<>>
    /\ call' = Idle
    /\ collects' = 0
    /\ UNCHANGED <<registered, config, taskScheduler, scheduledTasks, wmi, vmware, lifecycle>>

\* vmware Collector.Build, called once; each counter object exists or not
VmwareBuild ==
    /\ registered = "vmware"
    /\ lifecycle = "Constructed"
    /\ \E cpuAvailable \in BOOLEAN, memAvailable \in BOOLEAN :
         LET r == Build(vmware, cpuAvailable, memAvailable)
         IN  /\ vmware' = r.c
             /\ nativeLog' = r.log
             /\ call' = [op |-> "vmware.Build", ch |-> <<>>, err |-> r.err, panicked |-> FALSE]
             /\ lifecycle' = IF r.err = NoError THEN "Built" ELSE "BuildFailed"
    /\ collects' = 0
    /\ UNCHANGED <<registered, config, taskScheduler, scheduledTasks, wmi, pdh>>

\* vmware Collector.Collect, on a collector whose Build succeeded
VmwareCollect ==
    /\ registered = "vmware"
    /\ lifecycle = "Built"
    /\ LET r == Collect(vmware, pdh)
       IN  /\ vmware' = r.c
           /\ nativeLog' = r.log
           /\ call' = [op |-> "vmware", ch |-> r.ch, err |-> r.err, panicked |-> r.panicked]
    /\ collects' = Again
    /\ UNCHANGED <<registered, config, taskScheduler, scheduledTasks, wmi, pdh, lifecycle>>

Next ==
    \/ TaskSchedulerChange
    \/ ScheduledTaskCollect
    \/ WmiChange
    \/ NetframeworkCollectClrExceptions
    \/ NetframeworkCollectClrJIT
    \/ PdhChange
    \/ VmwareBuild
    \/ VmwareCollect

Spec == Init /\ [][Next]_vars

(***************************************************************************)
(* Properties of the scheduled_task collector.                             *)
(***************************************************************************)
\* the last call was scheduled_task Collect
STReturned == call.op = "scheduled_task"

\* ... and getScheduledTasks returned its list without an error
STCollected == STReturned /\ call.err = NoError

\* the samples on the channel whose first label (task) is path
SamplesOf(path) == SelectSeq(call.ch, LAMBDA s : s.labels[1] = path)
SamplesOfDesc(path, name) ==
    SelectSeq(call.ch, LAMBDA s : s.labels[1] = path /\ s.desc.name = name)

ReturnedTasks == {scheduledTasks[i] : i \in DOMAIN scheduledTasks}

PassesFilter(path) ==
    MatchString(config.TaskInclude, path) /\ ~MatchString(config.TaskExclude, path)

\* C1: after a collect whose getScheduledTasks succeeded, a returned task has
\* samples on the channel iff its Path matches TaskInclude and does not match
\* TaskExclude; a task failing the filter has no sample of any metric.
C1_FilterIff ==
    STCollected =>
        /\ \A t \in ReturnedTasks : (SamplesOf(t.Path) # <<>>) <=> PassesFilter(t.Path)
        /\ \A i \in DOMAIN call.ch : \E t \in ReturnedTasks :
               call.ch[i].labels[1] = t.Path /\ PassesFilter(t.Path)

\* a task matched by both include and exclude is dropped, one matched by
\* neither is dropped, and another task of the same scrape is emitted
C1_Witness ==
    /\ STCollected
    /\ \E t \in ReturnedTasks :
          /\ MatchString(config.TaskInclude, t.Path)
          /\ MatchString(config.TaskExclude, t.Path)
          /\ SamplesOf(t.Path) = <<>>
    /\ \E t \in ReturnedTasks :
          /\ ~MatchString(config.TaskInclude, t.Path)
          /\ ~MatchString(config.TaskExclude, t.Path)
          /\ SamplesOf(t.Path) = <<>>
    /\ \E t \in ReturnedTasks : SamplesOf(t.Path) # <<>>

\* the state labels in the order of emission, and the label of each defined state
StateLabels ==
    << <<"d", "i", "s", "a", "b", "l", "e", "d">>, <<"q", "u", "e", "u", "e", "d">>,
       <<"r", "e", "a", "d", "y">>, <<"r", "u", "n", "n", "i", "n", "g">>,
       <<"u", "n", "k", "n", "o", "w", "n">> >>
LabelIndexOfState == [st \in TASK_STATE_UNKNOWN..TASK_STATE_RUNNING |->
                        IF st = TASK_STATE_UNKNOWN THEN Len(StateLabels) ELSE st]

\* C3: a task that passes the filter and whose State is one of the five
\* defined states has exactly five state samples, labelled (path, state) with
\* the states disabled, queued, ready, running, unknown in that order; the
\* one naming the task's State has value 1.0 and the other four 0.0.
C3_StateSamples ==
    STCollected =>
        \A t \in ReturnedTasks :
            (PassesFilter(t.Path) /\ t.State \in TASK_STATE_UNKNOWN..TASK_STATE_RUNNING) =>
                LET ss == SamplesOfDesc(t.Path, "windows_scheduled_task_state")
                IN  /\ Len(ss) = Len(StateLabels)
                    /\ \A k \in DOMAIN ss :
                          /\ ss[k].labels = <<t.Path, StateLabels[k]>>
                          /\ ss[k].kind = "Gauge"
                          /\ ss[k].value =
                                IF k = LabelIndexOfState[t.State] THEN Float(1) ELSE Float(0)

\* a RUNNING task and an UNKNOWN task were emitted in one scrape
C3_Witness ==
    /\ STCollected
    /\ \E t \in ReturnedTasks :
          /\ t.State = TASK_STATE_RUNNING
          /\ Len(SamplesOfDesc(t.Path, "windows_scheduled_task_state")) = Len(StateLabels)
    /\ \E t \in ReturnedTasks :
          /\ t.State = TASK_STATE_UNKNOWN
          /\ Len(SamplesOfDesc(t.Path, "windows_scheduled_task_state")) = Len(StateLabels)

\* C4: a task that passes the filter and has not run yet has its five state
\* samples and neither a last_result nor a missed_runs sample; any other
\* task that passes has exactly one last_result sample (1.0 for
\* SCHED_S_SUCCESS, 0.0 otherwise) and exactly one missed_runs sample with
\* the task's MissedRunsCount, both labelled with the task path.
C4_ResultSamples ==
    STCollected =>
        \A t \in ReturnedTasks :
            PassesFilter(t.Path) =>
                LET lr == SamplesOfDesc(t.Path, "windows_scheduled_task_last_result")
                    mr == SamplesOfDesc(t.Path, "windows_scheduled_task_missed_runs")
                    ss == SamplesOfDesc(t.Path, "windows_scheduled_task_state")
                IN  /\ Len(ss) = Len(StateLabels)
                    /\ Len(SamplesOf(t.Path)) = Len(ss) + Len(lr) + Len(mr)
                    /\ IF t.LastTaskResult = SCHED_S_TASK_HAS_NOT_RUN
                       THEN lr = <<>> /\ mr = <<>>
                       ELSE /\ Len(lr) = 1 /\ Len(mr) = 1
                            /\ lr[1].labels = <<t.Path>> /\ mr[1].labels = <<t.Path>>
                            /\ lr[1].value =
                                  IF t.LastTaskResult = SCHED_S_SUCCESS THEN Float(1) ELSE Float(0)
                            /\ mr[1].value = t.MissedRunsCount

\* one scrape emitted a task that has not run, a task that succeeded and a
\* task that failed with missed runs
C4_Witness ==
    /\ STCollected
    /\ \E t \in ReturnedTasks :
          t.LastTaskResult = SCHED_S_TASK_HAS_NOT_RUN /\ SamplesOf(t.Path) # <<>>
    /\ \E t \in ReturnedTasks :
          /\ t.LastTaskResult \notin {SCHED_S_SUCCESS, SCHED_S_TASK_HAS_NOT_RUN}
          /\ t.MissedRunsCount # Float(0)
          /\ SamplesOfDesc(t.Path, "windows_scheduled_task_missed_runs") # <<>>

\* every native call of the session succeeds
AllNativeCallsSucceed ==
    taskScheduler.fail = NoFail /\ taskScheduler.coInit \in {S_OK, S_FALSE}

\* positions of the events op in the log of the last session
Positions(op) == {i \in DOMAIN nativeLog : nativeLog[i].op = op}
PositionsOn(op, h) == {i \in DOMAIN nativeLog : nativeLog[i].op = op /\ nativeLog[i].on = h}

\* where the returned list holds the native task t
IndexesOf(t) ==
    {i \in DOMAIN scheduledTasks : scheduledTasks[i].Path = ReplaceAll(t.Path, "\\", "/")}

OwnTasks(f) == {f.tasks[i] : i \in 1..Len(f.tasks)}

\* C7: when all native calls succeed, the walk from the root returns, enters
\* (GetTasks, GetFolders) every folder of the tree exactly once and no other
\* container, and appends every task of every folder exactly once; a folder's
\* own tasks precede every task of its sub-folders.
C7_TraversalComplete ==
    (STReturned /\ AllNativeCallsSucceed) =>
        /\ call.err = NoError
        /\ \A f \in FoldersOf(taskScheduler.root) :
              /\ Cardinality(PositionsOn("GetTasks", FolderHandle(f.path))) = 1
              /\ Cardinality(PositionsOn("GetFolders", FolderHandle(f.path))) = 1
        /\ Cardinality(Positions("GetTasks")) = Cardinality(FoldersOf(taskScheduler.root))
        /\ Cardinality(Positions("GetFolders")) = Cardinality(FoldersOf(taskScheduler.root))
        /\ \A t \in TasksOf(taskScheduler.root) : Cardinality(IndexesOf(t)) = 1
        /\ Len(scheduledTasks) = Cardinality(TasksOf(taskScheduler.root))
        /\ \A f \in FoldersOf(taskScheduler.root) :
              \A t \in OwnTasks(f) : \A u \in TasksOf(f) \ OwnTasks(f) :
                  \A i \in IndexesOf(t) : \A j \in IndexesOf(u) : i < j

\* the tree with sibling folders at two depths was walked to its last
\* folders and all four of its tasks were returned
C7_Witness ==
    /\ STReturned /\ AllNativeCallsSucceed
    /\ Cardinality(FoldersOf(taskScheduler.root)) = 5
    /\ Len(scheduledTasks) = 4
    /\ PositionsOn("GetTasks", FolderHandle(PathFK)) # {}
    /\ PositionsOn("GetTasks", FolderHandle(PathH)) # {}

\* CoInitializeEx was accepted (S_OK, or S_FALSE: already initialised)
CoInitAccepted == taskScheduler.coInit \in {S_OK, S_FALSE}

\* C8: in every session, on every return path, LockOSThread is the first
\* call and CoInitializeEx the second, UnlockOSThread is the last call (so
\* every COM call and every Release happens on the locked thread, and the
\* unlock follows CoUninitialize and every Release), and CoUninitialize is
\* called exactly once when CoInitializeEx was accepted and not at all when
\* its error is returned.
C8_ThreadPinned ==
    STReturned =>
        /\ Positions("LockOSThread") = {1}
        /\ Positions("CoInitializeEx") = {2}
        /\ Positions("UnlockOSThread") = {Len(nativeLog)}
        /\ \A i \in Positions("CoUninitialize") \cup Positions("Release") :
              \A j \in Positions("UnlockOSThread") : i < j
        /\ \A i \in Positions("Release") : \A j \in Positions("CoUninitialize") : i < j
        /\ IF CoInitAccepted
           THEN Cardinality(Positions("CoUninitialize")) = 1
           ELSE /\ Positions("CoUninitialize") = {}
                /\ call.err = Wrap("get scheduled tasks",
                                    [kind |-> "ole", code |-> taskScheduler.coInit])

\* a session that failed in the middle of the walk after CoInitializeEx
\* answered S_FALSE, with handles released before the teardown
C8_Witness ==
    /\ STReturned
    /\ taskScheduler.coInit = S_FALSE
    /\ taskScheduler.fail.at = "GetFolders"
    /\ call.err # NoError
    /\ Positions("Release") # {}
    /\ Positions("CoUninitialize") # {}

\* C9: every COM handle a session acquired is released exactly once before
\* the session returns, on every return path.
C9_EveryHandleReleasedOnce ==
    STReturned =>
        \A i \in DOMAIN nativeLog :
            nativeLog[i].got # None =>
                Cardinality({j \in PositionsOn("Release", nativeLog[i].got) : j > i}) = 1

(***************************************************************************)
(* Properties of the netframework collector.                               *)
(***************************************************************************)
\* the last call was collectClrExceptions or collectClrJIT
NFReturned == call.op \in {"clrexceptions", "clrjit"}

\* C2: after collectClrExceptions or collectClrJIT no sample on the channel
\* has the process label "_Global_", wherever the sentinel row stands in the
\* query result; every other row of a successful query is on the channel.
C2_SentinelNeverEmitted ==
    NFReturned =>
        /\ \A i \in DOMAIN call.ch : call.ch[i].labels # <<"_Global_">>
        /\ call.err = NoError =>
              \A k \in DOMAIN wmi.processes :
                  wmi.processes[k].Name # "_Global_" =>
                      \E i \in DOMAIN call.ch : call.ch[i].labels = <<wmi.processes[k].Name>>

\* the sentinel row came last in the result, after a row that was emitted
C2_Witness ==
    /\ NFReturned
    /\ Len(wmi.processes) >= 2
    /\ wmi.processes[1].Name # "_Global_"
    /\ wmi.processes[Len(wmi.processes)].Name = "_Global_"
    /\ call.ch # <<>>

(***************************************************************************)
(* Properties of the vmware collector.                                     *)
(***************************************************************************)
VmwareBuilt == call.op = "vmware.Build"

CpuCreated == vmware.perfDataCollectorCPU = "open"
MemCreated == vmware.perfDataCollectorMemory = "open"

\* C5: Build attempts to create the "VM Processor" and then the "VM Memory"
\* collector whatever the first attempt gave, creates all 19 descriptors,
\* returns nil iff both collectors were created, and when neither was
\* created returns an error that wraps both failures.
C5_BuildJoinsErrors ==
    VmwareBuilt =>
        /\ nativeLog = <<Ev("NewCollector", <<"VM Processor">>, None),
                         Ev("NewCollector", <<"VM Memory">>, None)>>
        /\ Cardinality(DOMAIN vmware.descs) = 19
        /\ Cardinality({vmware.descs[f].name : f \in DOMAIN vmware.descs}) = 19
        /\ (call.err = NoError) <=> (CpuCreated /\ MemCreated)
        /\ (~CpuCreated /\ ~MemCreated) =>
              /\ call.err.kind = "join"
              /\ Len(call.err.errs) = 2
              /\ call.err.errs[1] =
                    Wrap("failed to create VM Processor collector",
                         NativeError(<<"NewCollector", "VM Processor">>))
              /\ call.err.errs[2] =
                    Wrap("failed to create VM Memory collector",
                         NativeError(<<"NewCollector", "VM Memory">>))
        /\ (CpuCreated /\ ~MemCreated) =>
              call.err = Join(<<Wrap("failed to create VM Memory collector",
                                     NativeError(<<"NewCollector", "VM Memory">>))>>)
        /\ (~CpuCreated /\ MemCreated) =>
              call.err = Join(<<Wrap("failed to create VM Processor collector",
                                     NativeError(<<"NewCollector", "VM Processor">>))>>)

\* Build ran with neither counter object available
C5_Witness == VmwareBuilt /\ ~CpuCreated /\ ~MemCreated /\ call.err # NoError

VmwareCollected == call.op = "vmware"

\* the samples on the channel of the descriptors whose name has the prefix
\* of the CPU metrics / of the memory metrics
CpuDescNames ==
    {"windows_vmware_cpu_limit_mhz", "windows_vmware_cpu_reservation_mhz",
     "windows_vmware_cpu_shares", "windows_vmware_cpu_stolen_seconds_total",
     "windows_vmware_cpu_time_seconds_total",
     "windows_vmware_cpu_effective_vm_speed_mhz_total",
     "windows_vmware_host_processor_speed_mhz"}
CpuSamples == SelectSeq(call.ch, LAMBDA x : x.desc.name \in CpuDescNames)
MemSamples == SelectSeq(call.ch, LAMBDA x : x.desc.name \notin CpuDescNames)

\* the errors Collect joins, given which collections failed
ExpectedCollectErrors ==
    (IF pdh.cpu.err
     THEN <<Wrap("failed collecting vmware cpu metrics",
                 Wrap("failed to collect VM CPU metrics", NativeError("Collect")))>>
     ELSE <<>>)
    \o (IF pdh.mem.err
        THEN <<Wrap("failed collecting vmware memory metrics",
                    Wrap("failed to collect VM Memory metrics", NativeError("Collect")))>>
        ELSE <<>>)

\* C6: Collect always attempts the CPU and then the memory collection,
\* whatever the first gave; when the CPU collection fails and the memory
\* collection succeeds the 12 memory samples are on the channel, when the
\* memory collection fails the 7 CPU samples sent before stay on it, and
\* the returned error joins exactly the failures (nil iff both succeeded).
C6_CollectAttemptsBoth ==
    VmwareCollected =>
        /\ nativeLog = <<Ev("Collect", <<"VM Processor">>, None),
                         Ev("Collect", <<"VM Memory">>, None)>>
        /\ ~call.panicked
        /\ (pdh.cpu.err /\ ~pdh.mem.err) => (Len(MemSamples) = 12 /\ CpuSamples = <<>>)
        /\ (~pdh.cpu.err /\ pdh.mem.err) => (Len(CpuSamples) = 7 /\ MemSamples = <<>>)
        /\ call.err = Join(ExpectedCollectErrors)
        /\ (call.err = NoError) <=> (~pdh.cpu.err /\ ~pdh.mem.err)

\* the same, for scrapes in which no successful collection returned zero rows
C6_WhenRowsPresent ==
    ((pdh.cpu.err \/ pdh.cpu.n > 0) /\ (pdh.mem.err \/ pdh.mem.n > 0)) =>
        C6_CollectAttemptsBoth

(***************************************************************************)
(* Properties across collectors.                                           *)
(***************************************************************************)
\* a native call of the session failed, so getScheduledTasks returned an error
STNativeFailure ==
    ~CoInitAccepted \/ taskScheduler.fail.at \notin {"none", "CreateInstanceNil"}

STNativeError ==
    IF ~CoInitAccepted THEN [kind |-> "ole", code |-> taskScheduler.coInit]
    ELSE NativeError(taskScheduler.fail.at)

\* C10: when getScheduledTasks returns an error, also after tasks were
\* appended during the walk, scheduled_task collect sends no sample and
\* returns an error wrapping the native one; when miSession.Query fails,
\* collectClrExceptions and collectClrJIT send no sample and return an error
\* wrapping the query error.
C10_NoPartialResult ==
    /\ (STReturned /\ STNativeFailure) =>
          /\ call.ch = <<>>
          /\ call.err = Wrap("get scheduled tasks", STNativeError)
    /\ (NFReturned /\ wmi.fail) =>
          /\ call.ch = <<>>
          /\ call.err = Wrap("WMI query failed", NativeError("Query"))

\* the walk failed after it had appended tasks that pass the filter
C10_Witness ==
    /\ STReturned /\ STNativeFailure
    /\ \E t \in ReturnedTasks : PassesFilter(t.Path)
    /\ call.err # NoError

\* a query that failed after rows had been mapped
C10_WitnessQuery == NFReturned /\ wmi.fail /\ wmi.processes # <<>> /\ call.err # NoError

(***************************************************************************)
(* Properties across the collectors.                                       *)
(***************************************************************************)
\* strings.HasSuffix
HasSuffix(s, suffix) ==
    /\ Len(s) >= Len(suffix)
    /\ SubSeq(s, Len(s) - Len(suffix) + 1, Len(s)) = suffix

\* a Collect of one of the four collectors has returned
Collected == call.op \in {"scheduled_task", "clrexceptions", "clrjit", "vmware"}

\* C11: every sample whose descriptor name ends in "_total" has value kind
\* Counter, so no Gauge sample has a descriptor name ending in "_total".
C11_TotalSuffixOnlyCounters ==
    Collected =>
        \A i \in DOMAIN call.ch :
            HasSuffix(call.ch[i].desc.name, "_total") => call.ch[i].kind = "Counter"

\* the samples that break the rule are those of jit_standard_failures_total
\* and cpu_effective_vm_speed_mhz_total, and no others
C11_OnlyTwoDescriptorsBreakIt ==
    Collected =>
        \A i \in DOMAIN call.ch :
            (HasSuffix(call.ch[i].desc.name, "_total") /\ call.ch[i].kind # "Counter")
                <=> call.ch[i].desc.name \in
                        {"windows_netframework_clrjit_jit_standard_failures_total",
                         "windows_vmware_cpu_effective_vm_speed_mhz_total"}

(***************************************************************************)
(* Numerical properties of the netframework collector.                     *)
(***************************************************************************)
\* a <= b on two-limb magnitudes
LimbLeq(a, b) == a.hi < b.hi \/ (a.hi = b.hi /\ a.lo <= b.lo)

LimbIsZero(a) == a.hi = 0 /\ a.lo = 0

\* a quotient of two magnitudes is a number in 0..1: x/0 is +Inf, 0/0 is NaN
InUnitRange(v) == ~LimbIsZero(v.den) /\ LimbLeq(v.num, v.den)

\* the rows of the last query the loop does not skip, in query order
RowsEmitted(class) ==
    SelectSeq(Query(wmi, class).dst, LAMBDA row : row.Name # "_Global_")

\* the samples of one descriptor on the channel, in channel order
SamplesNamed(name) == SelectSeq(call.ch, LAMBDA s : s.desc.name = name)

JitReturned == call.op = "clrjit" /\ call.err = NoError

\* C12: after a successful collectClrJIT each non-sentinel row has one
\* jit_time_percent Gauge sample whose value is the row's PercentTimeinJit
\* divided by the same row's Frequency_PerfTime (50 and 100 give 0.5), and
\* that value lies in the range 0 to 1.
C12_JitTimePercentInUnitRange ==
    JitReturned =>
        LET rows == RowsEmitted("Win32_PerfRawData_NETFramework_NETCLRJit")
            jt == SamplesNamed("windows_netframework_clrjit_jit_time_percent")
        IN  /\ Len(jt) = Len(rows)
            /\ \A k \in DOMAIN rows :
                  /\ jt[k].kind = "Gauge"
                  /\ jt[k].labels = <<rows[k].Name>>
                  /\ jt[k].value.num = rows[k].PercentTimeinJit
                  /\ jt[k].value.den = rows[k].Frequency_PerfTime
                  /\ (rows[k].PercentTimeinJit = W(50) /\ rows[k].Frequency_PerfTime = W(100))
                        => (jt[k].value.num.hi = 0 /\ jt[k].value.den.hi = 0
                            /\ 2 * jt[k].value.num.lo = jt[k].value.den.lo)
                  /\ InUnitRange(jt[k].value)

\* the quotient itself is the one stated: the sample of each row divides that
\* row's two fields, whatever they hold
C12_QuotientOfTheRow ==
    JitReturned =>
        LET rows == RowsEmitted("Win32_PerfRawData_NETFramework_NETCLRJit")
            jt == SamplesNamed("windows_netframework_clrjit_jit_time_percent")
        IN  /\ Len(jt) = Len(rows)
            /\ \A k \in DOMAIN rows :
                  /\ jt[k].labels = <<rows[k].Name>>
                  /\ jt[k].value.num = rows[k].PercentTimeinJit
                  /\ jt[k].value.den = rows[k].Frequency_PerfTime

ExceptionsReturned == call.op = "clrexceptions" /\ call.err = NoError

\* the value of an unsigned 32-bit field as a sample value: the same
\* magnitude over 1
Exactly(field) == [num |-> [hi |-> field.hi, lo |-> field.lo], den |-> [hi |-> 0, lo |-> 1]]

\* C13: after a successful collectClrExceptions the channel holds, for each
\* non-sentinel row in query order, four Counter samples labelled with the
\* row's Name whose values are exactly NumberofExcepsThrown,
\* NumberofFiltersPersec, NumberofFinallysPersec and ThrowToCatchDepthPersec;
\* 4294967295 (65535 * 65536 + 65535) is emitted as 4294967295.
C13_ExceptionsWidenedLossless ==
    ExceptionsReturned =>
        LET rows == RowsEmitted("Win32_PerfRawData_NETFramework_NETCLRExceptions")
        IN  /\ Len(call.ch) = 4 * Len(rows)
            /\ \A k \in DOMAIN rows :
                  LET s1 == call.ch[4 * (k - 1) + 1]
                      s2 == call.ch[4 * (k - 1) + 2]
                      s3 == call.ch[4 * (k - 1) + 3]
                      s4 == call.ch[4 * (k - 1) + 4]
                  IN  /\ \A s \in {s1, s2, s3, s4} :
                            /\ s.kind = "Counter"
                            /\ s.labels = <<rows[k].Name>>
                            /\ s.value.num.hi \in 0..65535
                            /\ s.value.num.lo \in 0..65535
                      /\ s1.desc.name = "windows_netframework_clrexceptions_exceptions_thrown_total"
                      /\ s2.desc.name = "windows_netframework_clrexceptions_exceptions_filters_total"
                      /\ s3.desc.name = "windows_netframework_clrexceptions_exceptions_finallys_total"
                      /\ s4.desc.name = "windows_netframework_clrexceptions_throw_to_catch_depth_total"
                      /\ s1.value = Exactly(rows[k].NumberofExcepsThrown)
                      /\ s2.value = Exactly(rows[k].NumberofFiltersPersec)
                      /\ s3.value = Exactly(rows[k].NumberofFinallysPersec)
                      /\ s4.value = Exactly(rows[k].ThrowToCatchDepthPersec)
                      /\ rows[k].NumberofExcepsThrown = [hi |-> 65535, lo |-> 65535]
                            => s1.value = [num |-> [hi |-> 65535, lo |-> 65535], den |-> W(1)]

\* two rows came back in an order that is not the sorted one, the first with
\* NumberofExcepsThrown at 4294967295, and eight samples were emitted
C13_Witness ==
    /\ ExceptionsReturned
    /\ Len(wmi.processes) = 2
    /\ wmi.processes[1].Name = "w3wp" /\ wmi.processes[2].Name = "_global_"
    /\ ClrExceptionsRow(wmi.processes[1]).NumberofExcepsThrown = [hi |-> 65535, lo |-> 65535]
    /\ Len(call.ch) = 8
    /\ call.ch[1].value.num = [hi |-> 65535, lo |-> 65535]
    /\ call.ch[5].labels = <<"_global_">>

(***************************************************************************)
(* Idempotence of Collect.                                                 *)
(***************************************************************************)
\* the call that returns in this step gave what the call before it gave
SameResult ==
    /\ call'.ch = call.ch
    /\ call'.err = call.err
    /\ call'.panicked = call.panicked

\* C14: a Collect that follows a Collect of the same collector, the native
\* data unchanged in between, sends the same samples in the same order and
\* returns the same error; for vmware this holds whatever rows the collector
\* retained from the calls before.
C14_CollectIdempotent ==
    [][ /\ (call.op = "scheduled_task" /\ call'.op = call.op /\ ScheduledTaskCollect)
              => SameResult
        /\ (call.op = "clrexceptions" /\ call'.op = call.op /\ NetframeworkCollectClrExceptions)
              => SameResult
        /\ (call.op = "clrjit" /\ call'.op = call.op /\ NetframeworkCollectClrJIT)
              => SameResult
        /\ (call.op = "vmware" /\ call'.op = call.op /\ VmwareCollect)
              => SameResult ]_vars

\* vmware Collect ran a second time on the same counters and sent its 19
\* samples, with rows retained in both buffers
C14_Witness ==
    /\ call.op = "vmware"
    /\ collects >= 2
    /\ Len(call.ch) = 19
    /\ vmware.perfDataObjectCPU # <<>>
    /\ vmware.perfDataObjectMemory # <<>>

\* scheduled_task Collect ran a second time on the same tasks and sent samples
C14_WitnessScheduledTask == call.op = "scheduled_task" /\ collects >= 2 /\ call.ch # <<>>

(***************************************************************************)
(* Task states outside the five defined ones.                              *)
(***************************************************************************)
\* C15: a task that passes the filter and whose raw State is greater than
\* TASK_STATE_RUNNING has exactly five state samples, one per state label in
\* the order of TASK_STATES, and all five have value 0.0, the one labelled
\* "unknown" included.
C15_UndefinedStateAllZero ==
    STCollected =>
        \A t \in ReturnedTasks :
            (PassesFilter(t.Path) /\ t.State > TASK_STATE_RUNNING) =>
                LET ss == SamplesOfDesc(t.Path, "windows_scheduled_task_state")
                IN  /\ Len(ss) = 5
                    /\ \A k \in DOMAIN ss :
                          /\ ss[k].labels = <<t.Path, StateLabels[k]>>
                          /\ ss[k].kind = "Gauge"
                          /\ ss[k].value = [num |-> [hi |-> 0, lo |-> 0],
                                            den |-> [hi |-> 0, lo |-> 1]]

\* a task with a State above TASK_STATE_RUNNING passed the filter and its
\* state samples, with the "unknown" one last, are on the channel
C15_Witness ==
    /\ STCollected
    /\ \E t \in ReturnedTasks :
          /\ t.State > TASK_STATE_RUNNING
          /\ PassesFilter(t.Path)
          /\ LET ss == SamplesOfDesc(t.Path, "windows_scheduled_task_state")
             IN  /\ Len(ss) = 5
                 /\ ss[5].labels[2] = <<"u", "n", "k", "n", "o", "w", "n">>

(***************************************************************************)
(* vmware: the samples of one Collect and the rows they are read from.     *)
(***************************************************************************)
\* the values collectCpu sends when it reads a row, in the order it sends them
CpuValuesOf(row) ==
    << Float(row.CPULimitMHz), Float(row.CPUReservationMHz), Float(row.CPUShares),
       MilliSecToSec(row.CPUStolenMs), MilliSecToSec(row.CPUTimePercents),
       Float(row.CPUEffectiveVMSpeedMHz), Float(row.CPUHostProcessorSpeedMHz) >>

\* the values collectMem sends when it reads a row, in the order it sends them
MemValuesOf(row) ==
    << MBToBytes(row.MemActiveMB), MBToBytes(row.MemBalloonedMB), MBToBytes(row.MemLimitMB),
       MBToBytes(row.MemMappedMB), MBToBytes(row.MemOverheadMB),
       MBToBytes(row.MemReservationMB), MBToBytes(row.MemSharedMB),
       MBToBytes(row.MemSharedSavedMB), Float(row.MemShares), MBToBytes(row.MemSwappedMB),
       MBToBytes(row.MemTargetSizeMB), MBToBytes(row.MemUsedMB) >>

ValuesOf(samples) == [i \in DOMAIN samples |-> samples[i].value]

\* the first row of the collection just made (row index 0 of the slice)
FirstCpuRow == CpuRow(pdh.seed)
FirstMemRow == MemRow(pdh.seed)

\* C16: after vmware Collect, a successful "VM Processor" collection has
\* given exactly 7 samples and a successful "VM Memory" collection exactly
\* 12, all with the values of the first collected row, and Collect has
\* returned without panicking, also when a collection succeeded with no
\* rows.
C16_RowZeroSamplesNoPanic ==
    VmwareCollected =>
        /\ ~call.panicked
        /\ ~pdh.cpu.err =>
              (Len(CpuSamples) = 7 /\ ValuesOf(CpuSamples) = CpuValuesOf(FirstCpuRow))
        /\ ~pdh.mem.err =>
              (Len(MemSamples) = 12 /\ ValuesOf(MemSamples) = MemValuesOf(FirstMemRow))

\* whenever each successful collection gives at least one row, the counts
\* are 7 and 12 and only the first row is read, however many rows follow
C16_WhenRowsPresent ==
    (VmwareCollected /\ (pdh.cpu.err \/ pdh.cpu.n >= 1) /\ (pdh.mem.err \/ pdh.mem.n >= 1)) =>
        /\ ~call.panicked
        /\ ~pdh.cpu.err =>
              (Len(CpuSamples) = 7 /\ ValuesOf(CpuSamples) = CpuValuesOf(FirstCpuRow))
        /\ ~pdh.mem.err =>
              (Len(MemSamples) = 12 /\ ValuesOf(MemSamples) = MemValuesOf(FirstMemRow))
        /\ pdh.cpu.err => CpuSamples = <<>>
        /\ pdh.mem.err => MemSamples = <<>>

\* a successful collection with no rows always ends in a panic
C16_ZeroRowsPanic ==
    (VmwareCollected /\ ~pdh.cpu.err /\ pdh.cpu.n = 0) => (call.panicked /\ call.ch = <<>>)

====
